---- MODULE Spec2Model ----
(***************************************************************************)
(* CineMap: a browser movie-collection manager.                            *)
(*   filmoteca.js  persistence (localStorage), bootstrap, pure CRUD        *)
(*   api.js        catalog (TMDB) client                                   *)
(*   ui.js         the in-memory list `movies` and the event handlers      *)
(*                                                                         *)
(* JavaScript values are tagged records, objects are functions from key    *)
(* names to values, arrays are sequences.                                  *)
(***************************************************************************)
EXTENDS Integers, Sequences, FiniteSets, TLC

VARIABLES
    movies,       \* ui.js `let movies`: the in-memory collection
    storage,      \* localStorage item under STORAGE_KEY
    pendingAdds,  \* window.addMovieFromTMDB calls suspended at their await
    pendingInits, \* actions.init calls suspended at `await resetMovies()`
    lastEvent,    \* what the last handler or continuation did (observation)
    ops,          \* number of user events so far
    shown,        \* ids of the records whose rating controls #output shows
    fetches,      \* resetMovies: state of the ten fetchCompleteMovieData calls
    resetPc,      \* resetMovies / actions.init: position of one bootstrap
    returned,     \* resetMovies: the list it returned
    fc,           \* one fetchCompleteMovieData call, step by step
    input,        \* a function called on its own: the list argument
    output        \* a function called on its own: the call and its result

vars == <<movies, storage, pendingAdds, pendingInits, lastEvent, ops, shown,
          fetches, resetPc, returned, fc, input, output>>

appVars   == <<movies, storage, pendingAdds, pendingInits, lastEvent, ops, shown>>
resetVars == <<fetches, resetPc, returned>>
pureVars  == <<input, output>>

-----------------------------------------------------------------------------
(* JavaScript values *)

Null      == [t |-> "null"]
Undefined == [t |-> "undefined"]
NaN       == [t |-> "NaN"]
Num(n)    == [t |-> "number", n |-> n]
Str(s)    == [t |-> "string", s |-> s]
\* a string whose characters matter (the genres line): a sequence of characters
Text(c)   == [t |-> "text", c |-> c]

\* ToBoolean
Truthy(v) ==
    CASE v.t = "number" -> v.n # 0
      [] v.t = "string" -> v.s # ""
      [] v.t = "text"   -> v.c # <<>>
      [] OTHER          -> FALSE

\* a === b
StrictEq(a, b) == a.t = b.t /\ a.t # "NaN" /\ a = b

\* o.k : a missing property reads as undefined
Get(o, k) == IF k \in DOMAIN o THEN o[k] ELSE Undefined

\* {}
EmptyObject == [k \in {} |-> Null]

\* { ...a, ...b }
Spread(a, b) ==
    [k \in (DOMAIN a) \cup (DOMAIN b) |-> IF k \in DOMAIN b THEN b[k] ELSE a[k]]

\* array.map(f) and array.filter(p)
Map(s, F(_)) == [i \in 1..Len(s) |-> F(s[i])]
Filter(s, P(_)) == SelectSeq(s, P)

-----------------------------------------------------------------------------
(* JSON text.  The text of an array of objects is the sequence of the      *)
(* objects' texts, an object's text the sequence of its members            *)
(* <<key, value>>.  Keys are written in the order the program creates      *)
(* them: the fields of a fetched record, then `rating`.                    *)

KeyOrder ==
    <<"id", "title", "director", "year", "overview", "genres", "voteAverage",
      "rating">>

\* a writer that puts null for every falsy value
StringifyValueFalsyNull(v) ==
    IF v.t = "NaN" \/ (v.t = "text" /\ v.c = <<>>) \/ (v.t = "number" /\ v.n = 0)
    THEN Null ELSE v

\* JSON.stringify of a member value: NaN is written as null
StringifyValue(v) == IF v.t = "NaN" THEN Null ELSE v

\* JSON.stringify of an object: members holding undefined are left out
StringifyObject(o) ==
    LET keys == SelectSeq(KeyOrder,
                          LAMBDA k : k \in DOMAIN o /\ o[k].t # "undefined")
    IN  [i \in 1..Len(keys) |-> <<keys[i], StringifyValue(o[keys[i]])>>]

\* JSON.stringify(array)
JSONstringify(list) ==
    [kind |-> "array", items |-> Map(list, StringifyObject)]

\* the object a parsed object text denotes
ParseObject(members) ==
    [k \in {members[i][1] : i \in 1..Len(members)} |->
        LET i == CHOOSE j \in 1..Len(members) :
                    /\ members[j][1] = k
                    /\ \A l \in (j+1)..Len(members) : members[l][1] # k
        IN  members[i][2]]

\* What localStorage can hold under the key
Absent     == [kind |-> "absent"]     \* getItem returns null
EmptyText  == [kind |-> "empty"]      \* the string ""
Garbage    == [kind |-> "garbage"]    \* a string that is not JSON
JsonNull   == [kind |-> "jsonnull"]   \* the string "null": JSON, not an array

\* JSON.parse(text): throws a SyntaxError, or returns the value
JSONparse(text) ==
    CASE text.kind = "array" ->
            [threw |-> FALSE, isArray |-> TRUE,
             value |-> Map(text.items, ParseObject)]
      [] text.kind = "jsonnull" ->
            [threw |-> FALSE, isArray |-> FALSE, value |-> <<>>]
      [] OTHER ->
            [threw |-> TRUE, isArray |-> FALSE, value |-> <<>>]

-----------------------------------------------------------------------------
(* filmoteca.js: persistence *)

\* loadMovies(): `data ? JSON.parse(data) : []` with data the stored item
loadMovies(data) ==
    IF data.kind \in {"absent", "empty"}
    THEN [threw |-> FALSE, isArray |-> TRUE, value |-> <<>>]
    ELSE JSONparse(data)

\* saveMovies(movies): the item after setItem(STORAGE_KEY, JSON.stringify(movies))
saveMovies(list) == JSONstringify(list)

\* clearMovies(): the item after removeItem(STORAGE_KEY)
clearMovies == Absent

-----------------------------------------------------------------------------
(* filmoteca.js: pure CRUD over a list *)

\* an add that checks uniqueness itself
addMovieIfNew(list, newMovie) ==
    IF \E i \in 1..Len(list) : Get(list[i], "id") = Get(newMovie, "id")
    THEN list ELSE Append(list, newMovie)

addMovie(list, newMovie) == Append(list, newMovie)

\* an update that inserts the patch when no record matches
updateMovieOrInsert(list, id, updates) ==
    IF \E i \in 1..Len(list) : Get(list[i], "id") = id
    THEN [i \in 1..Len(list) |->
            IF Get(list[i], "id") = id
            THEN [k \in (DOMAIN list[i]) \cup (DOMAIN updates) |->
                    IF k \in DOMAIN updates THEN updates[k] ELSE list[i][k]]
            ELSE list[i]]
    ELSE Append(list, updates)

\* an update that puts the patch in the record's place
updateMovieReplace(list, id, updates) ==
    [i \in 1..Len(list) |->
        IF Get(list[i], "id") = id THEN updates ELSE list[i]]

updateMovie(list, id, updates) ==
    Map(list, LAMBDA movie :
                 IF StrictEq(Get(movie, "id"), id)
                 THEN Spread(movie, updates) ELSE movie)

deleteMovie(list, id) ==
    Filter(list, LAMBDA movie : ~StrictEq(Get(movie, "id"), id))

movieExists(list, tmdbId) ==
    \E i \in 1..Len(list) : StrictEq(Get(list[i], "id"), tmdbId)

\* a rating that never overwrites an earlier one
rateMovieOnce(list, id, rating) ==
    [i \in 1..Len(list) |->
        IF Get(list[i], "id") = id /\ "rating" \notin DOMAIN list[i]
        THEN [k \in (DOMAIN list[i]) \cup {"rating"} |->
                IF k = "rating" THEN rating ELSE list[i][k]]
        ELSE list[i]]

rateMovie(list, id, rating) == updateMovie(list, id, [rating |-> rating])

-----------------------------------------------------------------------------
(* The catalog (TMDB), an external collaborator: what its endpoints answer *)

Arr(a)     == [t |-> "array", a |-> a]
\* a release date "yyyy-mm-dd"
DateStr(y) == [t |-> "datestring", y |-> y]

\* ToBoolean of what a response body can hold
TruthyField(v) ==
    CASE v.t \in {"array", "datestring"} -> TRUE
      [] OTHER -> Truthy(v)

DEFAULT_MOVIE_IDS == <<129, 124, 122, 121, 120, 13, 155, 497, 680, 275>>

DefaultIds == {DEFAULT_MOVIE_IDS[i] : i \in 1..Len(DEFAULT_MOVIE_IDS)}

Drama  == Text(<<"D", "r">>)
Crime  == Text(<<"C", "r">>)

\* GET /movie/{id}: the body of a successful answer
DetailsBody(id) ==
    [id           |-> Num(id),
     title        |-> Str(CASE id = 680 -> "Pulp Fiction"
                            [] id = 13  -> "Forrest Gump"
                            [] id = 550 -> "Fight Club"
                            [] OTHER    -> "Movie"),
     release_date |-> IF id = 124 THEN Str("") ELSE DateStr(1990 + (id % 10)),
     overview     |-> IF id = 122 THEN Str("") ELSE Str("overview"),
     genres       |-> CASE id = 680 -> Arr(<<[name |-> Crime], [name |-> Drama]>>)
                        [] id = 121 -> Null
                        [] OTHER    -> Arr(<<[name |-> Drama]>>),
     vote_average |-> Num(70 + (id % 20))]   \* in tenths: 84 is 8.4

\* GET /movie/{id}/credits: the body of a successful answer
CreditsBody(id) ==
    CASE id = 120 -> [id |-> Num(id)]                      \* no crew at all
      [] id = 497 -> [id |-> Num(id),
                      crew |-> Arr(<<[job |-> Str("Producer"),
                                      name |-> Str("P")]>>)]
      [] OTHER    -> [id |-> Num(id),
                      crew |-> Arr(<<[job |-> Str("Producer"), name |-> Str("P")],
                                     [job |-> Str("Director"),
                                      name |-> Str(IF id \in {680, 13}
                                                   THEN "Tarantino" ELSE "D")],
                                     [job |-> Str("Director"), name |-> Str("E")]>>)]

\* the body the catalog sends with a non-success status
ErrorBody == [status_message |-> Str("not found")]

\* How one request can end.
\*   ok           success status, JSON body
\*   transport    fetch() rejects
\*   status       non-success status, JSON error body
\*   statusBad    non-success status, body that is not JSON
\*   undecodable  success status, body that is not JSON
Outcomes == {"ok", "transport", "status", "statusBad", "undecodable"}

\* the Response of fetch(): rejects, or has .ok and a .json() that may reject
Response(outcome, body) ==
    [rejects   |-> outcome = "transport",
     ok        |-> outcome \in {"ok", "undecodable"},
     jsonThrew |-> outcome \in {"statusBad", "undecodable"},
     json      |-> IF outcome = "ok" THEN body ELSE ErrorBody]

DetailsResponse(id, outcome) == Response(outcome, DetailsBody(id))
CreditsResponse(id, outcome) == Response(outcome, CreditsBody(id))

-----------------------------------------------------------------------------
(* api.js: the catalog client used by add-by-search *)

NoDirector == Str("Diretor nao informado")
NoOverview == Str("Sinopse nao disponivel")

\* getMovieDetailsFromTMDB / getMovieCreditsFromTMDB: the body, or null on
\* a rejected fetch, a non-success status or a body that does not decode
getMovieDetailsFromTMDB(resp) ==
    IF resp.rejects \/ ~resp.ok \/ resp.jsonThrew THEN Null ELSE resp.json

getMovieCreditsFromTMDB(resp) ==
    IF resp.rejects \/ ~resp.ok \/ resp.jsonThrew THEN Null ELSE resp.json

\* crew.find(person => person.job === "Director")
FindDirector(crew) ==
    IF \E i \in 1..Len(crew) : StrictEq(Get(crew[i], "job"), Str("Director"))
    THEN LET i == CHOOSE j \in 1..Len(crew) :
                    /\ StrictEq(Get(crew[j], "job"), Str("Director"))
                    /\ \A l \in 1..(j-1) :
                          ~StrictEq(Get(crew[l], "job"), Str("Director"))
         IN  crew[i]
    ELSE Undefined

extractDirectorFromCredits(credits) ==
    IF credits = Null \/ ~TruthyField(Get(credits, "crew"))
    THEN NoDirector
    ELSE LET director == FindDirector(Get(credits, "crew").a)
         IN  IF director = Undefined THEN NoDirector ELSE Get(director, "name")

\* new Date(release_date).getFullYear()
getFullYear(date) == IF date.t = "datestring" THEN Num(date.y) ELSE NaN

RECURSIVE join(_)
\* names.join(', ')
join(names) ==
    IF names = <<>> THEN <<>>
    ELSE IF Len(names) = 1 THEN names[1].c
    ELSE names[1].c \o <<",", " ">> \o join(Tail(names))

\* the fields both fetchCompleteMovieData implementations build from details
MovieFrom(details, director) ==
    [id          |-> Get(details, "id"),
     title       |-> Get(details, "title"),
     director    |-> director,
     year        |-> IF TruthyField(Get(details, "release_date"))
                     THEN getFullYear(Get(details, "release_date")) ELSE Null,
     overview    |-> IF TruthyField(Get(details, "overview"))
                     THEN Get(details, "overview") ELSE NoOverview,
     genres      |-> IF TruthyField(Get(details, "genres"))
                     THEN Text(join(Map(Get(details, "genres").a,
                                        LAMBDA g : Get(g, "name"))))
                     ELSE Text(<<>>),
     voteAverage |-> Get(details, "vote_average")]

\* api.js fetchCompleteMovieData, given how its two requests ended
API_fetchCompleteMovieData(movieId, dOut, cOut) ==
    LET details == getMovieDetailsFromTMDB(DetailsResponse(movieId, dOut))
        credits == getMovieCreditsFromTMDB(CreditsResponse(movieId, cOut))
    IN  IF details = Null THEN Null
        ELSE MovieFrom(details, extractDirectorFromCredits(credits))

-----------------------------------------------------------------------------
(* filmoteca.js: the catalog client used by the bootstrap *)

\* filmoteca.js fetchCompleteMovieData, given how its requests ended: the
\* credits request is sent only after the details decoded, its status is
\* not looked at, and any rejection lands in the one catch, which returns null
fetchCompleteMovieData(movieId, dOut, cOut) ==
    LET response == DetailsResponse(movieId, dOut)
        creditsResponse == CreditsResponse(movieId, cOut)
    IN  IF response.rejects \/ ~response.ok \/ response.jsonThrew THEN Null
        ELSE IF creditsResponse.rejects \/ creditsResponse.jsonThrew THEN Null
        ELSE LET details == response.json
                 credits == creditsResponse.json
                 director ==
                    IF TruthyField(Get(credits, "crew"))
                    THEN LET d == FindDirector(Get(credits, "crew").a)
                         IN  IF d # Undefined /\ Truthy(Get(d, "name"))
                             THEN Get(d, "name") ELSE NoDirector
                    ELSE NoDirector
             IN  MovieFrom(details, director)

-----------------------------------------------------------------------------
(* filmoteca.js: resetMovies *)

\* a batch that gives up at the first failed fetch
successfulMoviesOrNone(moviesArray) ==
    IF \E i \in 1..Len(moviesArray) : moviesArray[i] = Null
    THEN <<>> ELSE moviesArray

\* moviesArray.filter(movie => movie !== null)
successfulMovies(moviesArray) == Filter(moviesArray, LAMBDA movie : movie # Null)

\* Promise.all(DEFAULT_MOVIE_IDS.map(id => fetchCompleteMovieData(id).catch(..)))
\* given how the requests of each id ended (outs[i] = <<details, credits>>):
\* the results in the order of the ids.  fetchCompleteMovieData never
\* rejects, so the .catch never runs.
moviesArrayOf(outs) ==
    [i \in 1..Len(DEFAULT_MOVIE_IDS) |->
        fetchCompleteMovieData(DEFAULT_MOVIE_IDS[i], outs[i][1], outs[i][2])]

-----------------------------------------------------------------------------
(* ui.js: inputs *)

\* the value of a non-empty <input type="number">: the decimal text of n
NumText(n) == [t |-> "numstring", n |-> n]

\* ToBoolean of a form field's value
TruthyInput(v) == IF v.t = "numstring" THEN TRUE ELSE Truthy(v)

\* Number(text)
Number(v) == IF v.t = "numstring" THEN Num(v.n) ELSE Num(0)

\* the update form's submit handler builds `updates` from the filled fields
updatesOf(form) ==
    LET filled == {k \in {"title", "director", "year", "overview"} :
                      TruthyInput(form[k])}
    IN  [k \in filled |-> IF k = "year" THEN Number(form[k]) ELSE form[k]]

\* movies.map(m => m.id): the records a rendered list shows, by id
idsOf(list) == Map(list, LAMBDA movie : Get(movie, "id"))

-----------------------------------------------------------------------------
(* Bounds and input sets of the application model *)

\* user events (clicks and submits) in one run
MaxOps == 3

\* search results the user can click: a default id and a non-default one
SearchIds == {680, 550}

\* ids typed into the update and delete forms; 999 is in no list
FormIds == {680, 550, 999}

\* star positions clicked, of the ten
StarClicks == {1, 7, 10}

\* what the update form is submitted with
UpdateForms ==
    {[title |-> Str("T2"), director |-> Str(""), year |-> Str(""),
      overview |-> Str("")],
     [title |-> Str(""), director |-> Str("Tarantino"), year |-> NumText(0),
      overview |-> Str("")],
     [title |-> Str(""), director |-> Str(""), year |-> Str(""),
      overview |-> Str("")]}

\* how the two requests of one fetchCompleteMovieData end
OutcomePairs == Outcomes \X Outcomes

AllOk == [i \in 1..Len(DEFAULT_MOVIE_IDS) |-> <<"ok", "ok">>]

\* bootstrap scenarios of the application model: every fetch succeeds; the
\* first and the ninth (680) fail; every fetch fails
BootScenarios ==
    {AllOk,
     [AllOk EXCEPT ![1] = <<"transport", "ok">>, ![9] = <<"status", "ok">>],
     [i \in 1..Len(DEFAULT_MOVIE_IDS) |-> <<"transport", "transport">>]}

\* a record as add-by-search stores it, and one the user has rated
Stored(id) == API_fetchCompleteMovieData(id, "ok", "ok")
Rated(id, r) == Spread(Stored(id), [rating |-> Num(r)])

\* collections found in storage at start-up
InitialLists ==
    {<<>>, <<Stored(550)>>, <<Rated(680, 7), Stored(13)>>}

\* no fetchCompleteMovieData call under observation
FcIdle == [pc |-> "idle", impl |-> "none", id |-> 0, details |-> "unsent",
           credits |-> "unsent", result |-> Null]

NoEvent == [kind |-> "start", id |-> 0, result |-> "none"]
Event(kind, id, result) == [kind |-> kind, id |-> id, result |-> result]

-----------------------------------------------------------------------------
(* ui.js: the application.  A step is one handler run to its end or to its *)
(* await, or one continuation of an await run to its end.                  *)

\* module start-up over what storage holds: movies = loadMovies(), then
\* saveMovies(movies)
StartUp(stored) ==
    /\ movies = loadMovies(stored).value
    /\ storage = saveMovies(loadMovies(stored).value)
    /\ pendingAdds = [id \in SearchIds |-> 0]
    /\ pendingInits = 0
    /\ lastEvent = NoEvent
    /\ ops = 0
    /\ shown = <<>>

Init ==
    /\ \E list \in InitialLists :
          \E stored \in {saveMovies(list)} \cup
                        (IF list = <<>> THEN {Absent, EmptyText} ELSE {}) :
             StartUp(stored)
    /\ fetches = <<>>
    /\ resetPc = "idle"
    /\ returned = <<>>
    /\ fc = FcIdle
    /\ input = <<>>
    /\ output = <<>>

\* window.addMovieFromTMDB without its existence check
AddClickUnchecked(movieId) ==
    /\ ops < MaxOps
    /\ ops' = ops + 1
    /\ lastEvent' = Event("add", movieId, "fetching")
    /\ pendingAdds' = [pendingAdds EXCEPT ![movieId] = @ + 1]
    /\ UNCHANGED <<movies, storage, pendingInits, shown>>
    /\ UNCHANGED <<resetVars, fc, pureVars>>

\* window.addMovieFromTMDB(movieId), up to its await: the existence check,
\* then the catalog fetch is issued
AddClick(movieId) ==
    /\ ops < MaxOps
    /\ ops' = ops + 1
    /\ IF movieExists(movies, Num(movieId))
       THEN /\ lastEvent' = Event("add", movieId, "rejected")
            /\ UNCHANGED pendingAdds
       ELSE /\ lastEvent' = Event("add", movieId, "fetching")
            /\ pendingAdds' = [pendingAdds EXCEPT ![movieId] = @ + 1]
    /\ UNCHANGED <<movies, storage, pendingInits, shown>>
    /\ UNCHANGED <<resetVars, fc, pureVars>>

\* window.addMovieFromTMDB(movieId), after its await: the fetch has settled
AddSettle(movieId, dOut, cOut) ==
    /\ pendingAdds[movieId] > 0
    /\ pendingAdds' = [pendingAdds EXCEPT ![movieId] = @ - 1]
    /\ LET movieData == API_fetchCompleteMovieData(movieId, dOut, cOut)
       IN  IF movieData = Null
           THEN /\ lastEvent' = Event("addSettle", movieId, "failed")
                /\ UNCHANGED <<movies, storage, shown>>
           ELSE /\ movies' = addMovie(movies, movieData)
                /\ storage' = saveMovies(movies')
                /\ shown' = <<>>
                /\ lastEvent' = Event("addSettle", movieId, "added")
    /\ UNCHANGED <<pendingInits, ops>>
    /\ UNCHANGED <<resetVars, fc, pureVars>>

\* the update form's submit handler
UpdateSubmit(id, form) ==
    /\ ops < MaxOps
    /\ ops' = ops + 1
    /\ movies' = updateMovie(movies, Number(NumText(id)), updatesOf(form))
    /\ storage' = saveMovies(movies')
    /\ shown' = <<>>
    /\ lastEvent' = Event("update", id, "done")
    /\ UNCHANGED <<pendingAdds, pendingInits>>
    /\ UNCHANGED <<resetVars, fc, pureVars>>

\* the delete form's submit handler
DeleteSubmit(id) ==
    /\ ops < MaxOps
    /\ ops' = ops + 1
    /\ movies' = deleteMovie(movies, Number(NumText(id)))
    /\ storage' = saveMovies(movies')
    /\ shown' = <<>>
    /\ lastEvent' = Event("delete", id, "done")
    /\ UNCHANGED <<pendingAdds, pendingInits>>
    /\ UNCHANGED <<resetVars, fc, pureVars>>

\* the click handler of #output, on star `value` of the k-th shown record
StarClick(k, value) ==
    /\ ops < MaxOps
    /\ ops' = ops + 1
    /\ k \in 1..Len(shown)
    /\ movies' = rateMovie(movies, shown[k], Num(value))
    /\ storage' = saveMovies(movies')
    /\ shown' = idsOf(movies')
    /\ lastEvent' = Event("rate", shown[k].n, "done")
    /\ UNCHANGED <<pendingAdds, pendingInits>>
    /\ UNCHANGED <<resetVars, fc, pureVars>>

\* actions.clear without its `movies=[]`
ClearStorageOnly ==
    /\ ops < MaxOps
    /\ ops' = ops + 1
    /\ storage' = clearMovies
    /\ shown' = <<>>
    /\ lastEvent' = Event("clear", 0, "done")
    /\ UNCHANGED <<movies, pendingAdds, pendingInits>>
    /\ UNCHANGED <<resetVars, fc, pureVars>>

\* actions.clear
Clear ==
    /\ ops < MaxOps
    /\ ops' = ops + 1
    /\ storage' = clearMovies
    /\ movies' = <<>>
    /\ shown' = <<>>
    /\ lastEvent' = Event("clear", 0, "done")
    /\ UNCHANGED <<pendingAdds, pendingInits>>
    /\ UNCHANGED <<resetVars, fc, pureVars>>

\* actions.list
List ==
    /\ ops < MaxOps
    /\ ops' = ops + 1
    /\ shown' = idsOf(movies)
    /\ lastEvent' = Event("list", 0, "done")
    /\ UNCHANGED <<movies, storage, pendingAdds, pendingInits>>
    /\ UNCHANGED <<resetVars, fc, pureVars>>

\* actions.init, up to its await: resetMovies issues the ten fetches
InitClick ==
    /\ ops < MaxOps
    /\ ops' = ops + 1
    /\ pendingInits' = pendingInits + 1
    /\ lastEvent' = Event("init", 0, "fetching")
    /\ UNCHANGED <<movies, storage, pendingAdds, shown>>
    /\ UNCHANGED <<resetVars, fc, pureVars>>

\* a bootstrap that keeps what the collection holds and appends the defaults
InitSettleMerge(outs) ==
    /\ pendingInits > 0
    /\ pendingInits' = pendingInits - 1
    /\ LET result == successfulMovies(moviesArrayOf(outs))
       IN  /\ movies' = movies \o result
           /\ storage' = saveMovies(movies')
           /\ shown' = idsOf(movies')
    /\ lastEvent' = Event("initSettle", 0, "done")
    /\ UNCHANGED <<pendingAdds, ops>>
    /\ UNCHANGED <<resetVars, fc, pureVars>>

\* the ten fetches of one bootstrap have all settled: resetMovies filters and
\* saves, and actions.init resumes in the same turn of the event loop
InitSettle(outs) ==
    /\ pendingInits > 0
    /\ pendingInits' = pendingInits - 1
    /\ LET result == successfulMovies(moviesArrayOf(outs))
       IN  /\ storage' = saveMovies(result)
           /\ movies' = result
           /\ shown' = idsOf(result)
    /\ lastEvent' = Event("initSettle", 0, "done")
    /\ UNCHANGED <<pendingAdds, ops>>
    /\ UNCHANGED <<resetVars, fc, pureVars>>

Next ==
    \/ \E id \in SearchIds : AddClick(id)
    \/ \E id \in SearchIds : \E o \in OutcomePairs : AddSettle(id, o[1], o[2])
    \/ \E id \in FormIds : \E form \in UpdateForms : UpdateSubmit(id, form)
    \/ \E id \in FormIds : DeleteSubmit(id)
    \/ \E k \in 1..Len(DEFAULT_MOVIE_IDS) + 1 : \E v \in StarClicks : StarClick(k, v)
    \/ Clear
    \/ List
    \/ InitClick
    \/ \E outs \in BootScenarios : InitSettle(outs)

Spec == Init /\ [][Next]_vars

-----------------------------------------------------------------------------
(* Properties of the application *)

\* the number of records of a list that carry the id
CountId(list, id) == Cardinality({i \in 1..Len(list) : list[i]["id"] = Num(id)})

PairwiseDistinctIds(list) ==
    \A i, j \in 1..Len(list) : list[i]["id"] = list[j]["id"] => i = j

\* C1: in every reachable state no two records of the in-memory collection,
\* and no two records of the persisted list, share an id
C1_UniqueIds ==
    /\ PairwiseDistinctIds(movies)
    /\ PairwiseDistinctIds(loadMovies(storage).value)

\* C2: between handlers, load() returns a list equal to the in-memory
\* collection (an absent key counting as the empty list)
C2_LoadEqualsMemory ==
    LET loaded == loadMovies(storage)
    IN  ~loaded.threw /\ loaded.isArray /\ loaded.value = movies

\* C2 witness: an add's continuation has stored a record while a bootstrap
\* is still pending, and the collection holds rated and unrated records
C2_Witness ==
    /\ lastEvent.kind = "addSettle" /\ lastEvent.result = "added"
    /\ pendingInits > 0
    /\ Len(movies) >= 2
    /\ \E i \in 1..Len(movies) : "rating" \in DOMAIN movies[i]
    /\ storage = saveMovies(movies)

\* C3: an add-by-search for an id the collection holds is rejected before
\* any mutation: no fetch is issued, and the in-memory collection and the
\* persisted value stay as they were
C3_DuplicateAddRejected ==
    [][\A id \in SearchIds :
          (/\ lastEvent'.kind = "add" /\ lastEvent'.id = id
           /\ ops' = ops + 1
           /\ CountId(movies, id) > 0)
          => /\ lastEvent'.result = "rejected"
             /\ pendingAdds' = pendingAdds
             /\ movies' = movies
             /\ storage' = storage
             /\ CountId(movies', id) = CountId(movies, id)]_vars

\* C3 witness: 680 was added by search, and a second add of 680 has been
\* rejected with exactly one record of id 680 in the collection
C3_Witness ==
    /\ lastEvent = Event("add", 680, "rejected")
    /\ CountId(movies, 680) = 1
    /\ movies[Len(movies)] = Stored(680)
    /\ pendingAdds[680] = 0

-----------------------------------------------------------------------------
(* One bootstrap, fetch by fetch: actions.init calls resetMovies, whose ten *)
(* fetchCompleteMovieData calls settle in any order.                        *)

Pending == [t |-> "pending"]

\* how the requests of one default id end, in the bootstrap model: both
\* succeed, the details request fails, the credits request fails
ResetOutcomes ==
    {<<"ok", "ok">>, <<"status", "ok">>, <<"ok", "transport">>}

InitReset ==
    /\ \E list \in {<<>>, <<Rated(680, 7), Stored(550)>>} : StartUp(saveMovies(list))
    /\ fetches = <<>>
    /\ resetPc = "idle"
    /\ returned = <<>>
    /\ fc = FcIdle
    /\ input = <<>>
    /\ output = <<>>

\* actions.init -> resetMovies, up to `await Promise.all(moviePromises)`
ResetClick ==
    /\ resetPc = "idle"
    /\ resetPc' = "awaiting"
    /\ fetches' = [i \in 1..Len(DEFAULT_MOVIE_IDS) |-> Pending]
    /\ pendingInits' = pendingInits + 1
    /\ ops' = ops + 1
    /\ lastEvent' = Event("init", 0, "fetching")
    /\ UNCHANGED <<movies, storage, pendingAdds, shown, returned, fc, pureVars>>

\* the fetchCompleteMovieData call of the i-th default id resolves
FetchSettle(i, dOut, cOut) ==
    /\ resetPc = "awaiting"
    /\ fetches[i] = Pending
    /\ fetches' = [fetches EXCEPT
                     ![i] = fetchCompleteMovieData(DEFAULT_MOVIE_IDS[i], dOut, cOut)]
    /\ UNCHANGED <<appVars, resetPc, returned, fc, pureVars>>

\* Promise.all resolves: resetMovies filters, saves and returns, and
\* actions.init assigns the returned list and renders it
ResetFinish ==
    /\ resetPc = "awaiting"
    /\ \A i \in 1..Len(fetches) : fetches[i] # Pending
    /\ returned' = successfulMovies(fetches)
    /\ storage' = saveMovies(returned')
    /\ movies' = returned'
    /\ shown' = idsOf(returned')
    /\ pendingInits' = pendingInits - 1
    /\ lastEvent' = Event("initSettle", 0, "done")
    /\ resetPc' = "done"
    /\ UNCHANGED <<pendingAdds, ops, fetches, fc, pureVars>>

NextReset ==
    \/ ResetClick
    \/ \E i \in 1..Len(DEFAULT_MOVIE_IDS) : \E o \in ResetOutcomes :
          FetchSettle(i, o[1], o[2])
    \/ ResetFinish

SpecReset == InitReset /\ [][NextReset]_vars

\* the default ids whose fetchCompleteMovieData call gave no record
FailedIds == {DEFAULT_MOVIE_IDS[i] : i \in {j \in 1..Len(fetches) : fetches[j] = Null}}

RECURSIVE Without(_, _)
\* the sequence of ids with the ids of F struck out
Without(ids, F) ==
    IF ids = <<>> THEN <<>>
    ELSE (IF Head(ids) \in F THEN <<>> ELSE <<Head(ids)>>) \o Without(Tail(ids), F)

\* C4: when a bootstrap ends, the returned list, the persisted list and the
\* in-memory collection are the same list; it holds exactly one record for
\* each default id whose fetch did not fail, in the order of the default ids
C4_BootstrapKeepsSuccesses ==
    resetPc = "done" =>
        LET kept == Without(DEFAULT_MOVIE_IDS, FailedIds)
        IN  /\ Len(returned) = Len(DEFAULT_MOVIE_IDS) - Cardinality(FailedIds)
            /\ Len(returned) = Len(kept)
            /\ \A k \in 1..Len(kept) :
                  /\ returned[k]["id"] = Num(kept[k])
                  /\ \E i \in 1..Len(fetches) : fetches[i] = returned[k]
            /\ movies = returned
            /\ loadMovies(storage) =
                  [threw |-> FALSE, isArray |-> TRUE, value |-> returned]

\* C4 witness: a bootstrap in which exactly the fetches of 129 and 680 failed
\* has ended with the other eight records, in request order
C4_Witness ==
    /\ resetPc = "done"
    /\ FailedIds = {129, 680}
    /\ Len(movies) = 8
    /\ idsOf(movies) = <<Num(124), Num(122), Num(121), Num(120), Num(13),
                         Num(155), Num(497), Num(275)>>
    /\ storage = saveMovies(movies)

-----------------------------------------------------------------------------
(* One fetchCompleteMovieData call, request by request, for the api.js      *)
(* implementation (add-by-search) and the filmoteca.js one (bootstrap).     *)
(* fc.details and fc.credits are "unsent", "sent" or how the request ended. *)

\* ids fetched: the defaults and a search result
FetchIds == DefaultIds \cup SearchIds

InitFetch ==
    /\ StartUp(Absent)
    /\ fetches = <<>>
    /\ resetPc = "idle"
    /\ returned = <<>>
    /\ fc = FcIdle
    /\ input = <<>>
    /\ output = <<>>

\* the call, up to its first await.  api.js starts getMovieDetailsFromTMDB
\* and getMovieCreditsFromTMDB, each of which issues its request, and awaits
\* Promise.all; filmoteca.js issues the details request and awaits it
FcCall(impl, movieId) ==
    /\ fc.pc = "idle"
    /\ fc' = [pc |-> "awaiting", impl |-> impl, id |-> movieId,
              details |-> "sent",
              credits |-> IF impl = "api" THEN "sent" ELSE "unsent",
              result |-> Null]
    /\ UNCHANGED <<appVars, resetVars, pureVars>>

\* the details request ends.  filmoteca.js: on success the continuation
\* issues the credits request, otherwise the catch returns null.  api.js:
\* the call returns once both requests have ended
FcDetailsSettle(out) ==
    /\ fc.pc = "awaiting"
    /\ fc.details = "sent"
    /\ fc' =
        IF fc.impl = "filmoteca"
        THEN IF out = "ok"
             THEN [fc EXCEPT !.details = out, !.credits = "sent"]
             ELSE [fc EXCEPT !.details = out, !.pc = "returned",
                             !.result = fetchCompleteMovieData(fc.id, out, "ok")]
        ELSE IF fc.credits = "sent"
             THEN [fc EXCEPT !.details = out]
             ELSE [fc EXCEPT !.details = out, !.pc = "returned",
                             !.result = API_fetchCompleteMovieData(fc.id, out, fc.credits)]
    /\ UNCHANGED <<appVars, resetVars, pureVars>>

\* the credits request ends
FcCreditsSettle(out) ==
    /\ fc.pc = "awaiting"
    /\ fc.credits = "sent"
    /\ fc' =
        IF fc.impl = "filmoteca"
        THEN [fc EXCEPT !.credits = out, !.pc = "returned",
                        !.result = fetchCompleteMovieData(fc.id, fc.details, out)]
        ELSE IF fc.details = "sent"
             THEN [fc EXCEPT !.credits = out]
             ELSE [fc EXCEPT !.credits = out, !.pc = "returned",
                             !.result = API_fetchCompleteMovieData(fc.id, fc.details, out)]
    /\ UNCHANGED <<appVars, resetVars, pureVars>>

NextFetch ==
    \/ \E impl \in {"api", "filmoteca"} : \E id \in FetchIds : FcCall(impl, id)
    \/ \E out \in Outcomes : FcDetailsSettle(out)
    \/ \E out \in Outcomes : FcCreditsSettle(out)

SpecFetch == InitFetch /\ [][NextFetch]_vars

\* C7: fetchComplete returns absent exactly when the details fetch failed;
\* when the details fetch succeeded and the credits fetch failed, the record
\* it returns carries the sentinel director.  For both implementations.
C7_AbsentIffDetailsFailed ==
    fc.pc = "returned" =>
        /\ (fc.result = Null) <=> (fc.details # "ok")
        /\ (fc.details = "ok" /\ fc.credits \in Outcomes \ {"ok"})
              => (fc.result # Null /\ fc.result["director"] = NoDirector)

\* C13: in every fetchComplete call, of either implementation, the details
\* and the credits request are both issued before either has ended, and the
\* call returns only once both have ended
C13_BothIssuedThenAwaited ==
    /\ fc.pc = "awaiting" => (fc.details # "unsent" /\ fc.credits # "unsent")
    /\ fc.pc = "returned" => (fc.details \in Outcomes /\ fc.credits \in Outcomes)

-----------------------------------------------------------------------------
(* The persistence store on its own: load, save and clear over whatever     *)
(* the key holds.                                                           *)

\* longest list given to save() and to the CRUD functions
MaxLen == 2

ListsOver(pool) == UNION {[1..n -> pool] : n \in 0..MaxLen}

\* well-formed records: as fetched, rated, without genres (121), without
\* a year (124)
StorePool == {Stored(550), Rated(680, 7), Stored(121), Rated(124, 10)}

\* what the key may hold when the store is called
StoredValues ==
    {Absent, EmptyText, Garbage, JsonNull}
        \cup {saveMovies(list) : list \in ListsOver({Stored(550), Rated(680, 7)})}

NoCall == [op |-> "none", before |-> "none", arg |-> <<>>,
           result |-> [threw |-> FALSE, isArray |-> TRUE, value |-> <<>>]]

InitStore ==
    /\ storage \in StoredValues
    /\ movies = <<>>
    /\ pendingAdds = [id \in SearchIds |-> 0]
    /\ pendingInits = 0
    /\ lastEvent = NoEvent
    /\ ops = 0
    /\ shown = <<>>
    /\ fetches = <<>>
    /\ resetPc = "idle"
    /\ returned = <<>>
    /\ fc = FcIdle
    /\ input = <<>>
    /\ output = NoCall

\* loadMovies()
StoreLoad ==
    /\ output' = [op |-> "load", before |-> storage.kind, arg |-> <<>>,
                  result |-> loadMovies(storage)]
    /\ UNCHANGED <<appVars, resetVars, fc, input>>

\* saveMovies(list)
StoreSave(list) ==
    /\ storage' = saveMovies(list)
    /\ output' = [op |-> "save", before |-> storage.kind, arg |-> list,
                  result |-> NoCall.result]
    /\ UNCHANGED <<movies, pendingAdds, pendingInits, lastEvent, ops, shown>>
    /\ UNCHANGED <<resetVars, fc, input>>

\* clearMovies()
StoreClear ==
    /\ storage' = clearMovies
    /\ output' = [op |-> "clear", before |-> storage.kind, arg |-> <<>>,
                  result |-> NoCall.result]
    /\ UNCHANGED <<movies, pendingAdds, pendingInits, lastEvent, ops, shown>>
    /\ UNCHANGED <<resetVars, fc, input>>

NextStore ==
    \/ StoreLoad
    \/ \E list \in ListsOver(StorePool) : StoreSave(list)
    \/ StoreClear

SpecStore == InitStore /\ [][NextStore]_vars

\* C5: load() never raises and always returns a list, and the list is empty
\* when the key is absent or the stored value does not decode
C5_LoadNeverRaises ==
    output.op = "load" =>
        /\ ~output.result.threw
        /\ output.result.isArray
        /\ output.before \in {"absent", "garbage"} => output.result.value = <<>>

\* C6: after save(X), load() returns X, whatever was stored before; after
\* clear(), load() returns the empty list, as it does for a stored empty list
C6_SaveLoadRoundTrip ==
    /\ output.op = "save" =>
          loadMovies(storage) =
              [threw |-> FALSE, isArray |-> TRUE, value |-> output.arg]
    /\ output.op = "clear" =>
          /\ loadMovies(storage) =
                [threw |-> FALSE, isArray |-> TRUE, value |-> <<>>]
          /\ loadMovies(storage) = loadMovies(saveMovies(<<>>))

\* C6 witness: a list with a rated record and a record without genres was
\* saved over a stored list
C6_Witness ==
    /\ output.op = "save"
    /\ output.before = "array"
    /\ output.arg = <<Rated(680, 7), Stored(121)>>
    /\ loadMovies(storage).value = output.arg

-----------------------------------------------------------------------------
(* The pure CRUD functions on their own, over bounded lists.                *)

\* records of the lists: two with id 680 (one rated), a fetched one, and one
\* with only an id and a title
CrudPool ==
    {Stored(680), Rated(680, 7), Stored(13),
     [id |-> Num(550), title |-> Str("Fight Club")]}

\* ids asked for: present ones, an unknown one, and the text "680"
CrudIds == {Num(680), Num(13), Num(999), Str("680")}

CrudPatches ==
    {EmptyObject, [title |-> Str("T2")], [rating |-> Num(3)], [id |-> Num(13)],
     [director |-> Str("D2"), year |-> Null]}

CrudRatings == {Num(3), Num(7)}

Call(op, id, patch, movie, result, found, again) ==
    [op |-> op, id |-> id, patch |-> patch, movie |-> movie, result |-> result,
     found |-> found, again |-> again]

InitCrud ==
    /\ input \in ListsOver(CrudPool)
    /\ output = Call("none", Null, EmptyObject, EmptyObject, <<>>, FALSE, <<>>)
    /\ StartUp(Absent)
    /\ fetches = <<>>
    /\ resetPc = "idle"
    /\ returned = <<>>
    /\ fc = FcIdle

CallAdd(m) ==
    /\ output' = Call("add", Get(m, "id"), EmptyObject, m, addMovie(input, m),
                      movieExists(addMovie(input, m), Get(m, "id")), <<>>)
    /\ UNCHANGED <<appVars, resetVars, fc, input>>

CallUpdate(id, patch) ==
    /\ output' = Call("update", id, patch, EmptyObject,
                      updateMovie(input, id, patch), FALSE, <<>>)
    /\ UNCHANGED <<appVars, resetVars, fc, input>>

CallDelete(id) ==
    /\ output' = Call("delete", id, EmptyObject, EmptyObject,
                      deleteMovie(input, id), FALSE, <<>>)
    /\ UNCHANGED <<appVars, resetVars, fc, input>>

CallExists(id) ==
    /\ output' = Call("exists", id, EmptyObject, EmptyObject, <<>>,
                      movieExists(input, id), <<>>)
    /\ UNCHANGED <<appVars, resetVars, fc, input>>

\* rateMovie, and rateMovie again on its result
CallRate(id, rating) ==
    /\ output' = Call("rate", id, [rating |-> rating], EmptyObject,
                      rateMovie(input, id, rating), FALSE,
                      rateMovie(rateMovie(input, id, rating), id, rating))
    /\ UNCHANGED <<appVars, resetVars, fc, input>>

NextCrud ==
    \/ \E m \in CrudPool : CallAdd(m)
    \/ \E id \in CrudIds : \E patch \in CrudPatches : CallUpdate(id, patch)
    \/ \E id \in CrudIds : CallDelete(id)
    \/ \E id \in CrudIds : CallExists(id)
    \/ \E id \in CrudIds : \E r \in CrudRatings : CallRate(id, r)

SpecCrud == InitCrud /\ [][NextCrud]_vars

\* some record of the list carries the id
Carries(list, id) == \E i \in 1..Len(list) : list[i]["id"] = id

\* C8: update and delete with an id no record carries return the list as it
\* was: same elements, same order, same length
C8_NotFoundIsNoOp ==
    (output.op \in {"update", "delete"} /\ ~Carries(input, output.id))
        => /\ output.result = input
           /\ Len(output.result) = Len(input)

\* C8 witness: an update with a non-empty patch for an id that a two-record
\* list does not carry
C8_Witness ==
    /\ output.op = "update"
    /\ output.id = Num(999)
    /\ output.patch = [title |-> Str("T2")]
    /\ Len(input) = 2
    /\ output.result = input

\* C9: rate changes nothing but the rating of the records whose id matches,
\* which becomes r, and rating again with the same r changes nothing more
C9_RateChangesOnlyRating ==
    output.op = "rate" =>
        LET r == output.patch["rating"]
            res == output.result
        IN  /\ Len(res) = Len(input)
            /\ \A i \in 1..Len(input) :
                  IF input[i]["id"] = output.id
                  THEN /\ DOMAIN res[i] = (DOMAIN input[i]) \cup {"rating"}
                       /\ res[i]["rating"] = r
                       /\ \A k \in (DOMAIN input[i]) \ {"rating"} :
                             res[i][k] = input[i][k]
                  ELSE res[i] = input[i]
            /\ output.again = res

\* C9 witness: a list holding a rated and an unrated record of id 680 was
\* rated 3 for that id: the old rating is replaced, the missing one set
C9_Witness ==
    /\ output.op = "rate"
    /\ output.id = Num(680)
    /\ input = <<Rated(680, 7), Stored(680)>>
    /\ output.result = <<Rated(680, 3), Rated(680, 3)>>
    /\ output.again = output.result

\* C10: add appends the movie as the last element without any uniqueness
\* check, after which exists finds its id; exists is true exactly when some
\* element carries the id
C10_AddAppendsExistsFinds ==
    /\ output.op = "add" =>
          /\ Len(output.result) = Len(input) + 1
          /\ SubSeq(output.result, 1, Len(input)) = input
          /\ output.result[Len(output.result)] = output.movie
          /\ output.found
    /\ output.op = "exists" => (output.found <=> Carries(input, output.id))

\* C10 witness: a record of id 680 was added to a list that already carries
\* id 680, giving two records with that id
C10_Witness ==
    /\ output.op = "add"
    /\ input = <<Rated(680, 7)>>
    /\ output.movie = Stored(680)
    /\ output.result = <<Rated(680, 7), Stored(680)>>
    /\ output.found

\* C14: for every list, id and patch, whatever fields the patch carries,
\* the ids of update(L, id, patch) are the ids of L, so that no update or
\* rate changes the id of any record
C14_IdImmutable ==
    output.op \in {"update", "rate"} => idsOf(output.result) = idsOf(input)

\* C14 as amended: for every list, id and patch that carries no id field,
\* the ids of update(L, id, patch) are the ids of L; the patches of rate
\* and of the update form carry no id field
C14_IdKeptByPatchWithoutId ==
    /\ (output.op \in {"update", "rate"} /\ "id" \notin DOMAIN output.patch)
          => idsOf(output.result) = idsOf(input)
    /\ output.op = "rate" => "id" \notin DOMAIN output.patch
    /\ \A form \in UpdateForms : "id" \notin DOMAIN updatesOf(form)

\* C14 witness: record 680 of a two-record list was given a new director
\* and a null year; the record changed and the ids did not
C14_Witness ==
    /\ output.op = "update"
    /\ output.id = Num(680)
    /\ output.patch = [director |-> Str("D2"), year |-> Null]
    /\ input = <<Stored(680), Stored(13)>>
    /\ output.result[1] # input[1]
    /\ output.result[1]["director"] = Str("D2")
    /\ idsOf(output.result) = <<Num(680), Num(13)>>

-----------------------------------------------------------------------------
(* filmoteca.js: listing, and the two filters on their own *)

\* String.prototype.includes, on character sequences
includes(s, sub) ==
    \E i \in 0..(Len(s) - Len(sub)) : SubSeq(s, i + 1, i + Len(sub)) = sub

listMoviesByDirector(list, directorName) ==
    Filter(list, LAMBDA movie : StrictEq(Get(movie, "director"), directorName))

\* movie.genres && movie.genres.includes(genreName)
listMoviesByGenre(list, genreName) ==
    Filter(list, LAMBDA movie :
                    /\ Truthy(Get(movie, "genres"))
                    /\ includes(Get(movie, "genres").c, genreName.c))

\* records filtered: two Tarantino films with genres "Cr, Dr" and "Dr", one
\* with an empty genres string (121), one without a director in its credits
\* (497), and one with neither a director nor genres
FilterPool ==
    {Stored(680), Stored(13), Stored(121), Stored(497),
     [id |-> Num(550), title |-> Str("Fight Club")]}

DirectorNames == {Str("Tarantino"), Str("D"), Str(""), Str("tarantino"), NoDirector}

GenreNames ==
    {Text(<<>>), Text(<<"D", "r">>), Text(<<"C", "r">>), Text(<<"r">>),
     Text(<<"r", ",", " ", "D">>), Text(<<"D", "r", ",">>), Text(<<"X">>)}

InitFilter ==
    /\ input \in ListsOver(FilterPool)
    /\ output = Call("none", Null, EmptyObject, EmptyObject, <<>>, FALSE, <<>>)
    /\ StartUp(Absent)
    /\ fetches = <<>>
    /\ resetPc = "idle"
    /\ returned = <<>>
    /\ fc = FcIdle

CallByDirector(name) ==
    /\ output' = Call("byDirector", name, EmptyObject, EmptyObject,
                      listMoviesByDirector(input, name), FALSE, <<>>)
    /\ UNCHANGED <<appVars, resetVars, fc, input>>

CallByGenre(name) ==
    /\ output' = Call("byGenre", name, EmptyObject, EmptyObject,
                      listMoviesByGenre(input, name), FALSE, <<>>)
    /\ UNCHANGED <<appVars, resetVars, fc, input>>

NextFilter ==
    \/ \E name \in DirectorNames : CallByDirector(name)
    \/ \E name \in GenreNames : CallByGenre(name)

SpecFilter == InitFilter /\ [][NextFilter]_vars

\* the text holds the name as a substring: text = a \o name \o b
Contains(text, name) ==
    \E i \in 0..Len(text) : \E j \in i..Len(text) : SubSeq(text, i + 1, j) = name

\* the record has a genres string
HasGenres(movie) == "genres" \in DOMAIN movie /\ movie["genres"].t = "text"

\* C11: byDirector returns exactly the elements whose director equals the
\* name, byGenre exactly the elements whose genres string contains the name
\* as a substring, both in the order of the list, for every name, the empty
\* one included
C11_FiltersAreSubsequences ==
    /\ output.op = "byDirector" =>
          output.result =
              SelectSeq(input, LAMBDA m : "director" \in DOMAIN m
                                          /\ m["director"] = output.id)
    /\ output.op = "byGenre" =>
          output.result =
              SelectSeq(input, LAMBDA m : HasGenres(m)
                                          /\ Contains(m["genres"].c, output.id.c))

-----------------------------------------------------------------------------
(* ui.js: rendering one record.  Displayed numbers are in tenths, as        *)
(* voteAverage is: a user rating of 7 is 70.                                *)

\* createMovieHTML: const maxStars
maxStars == 10

RECURSIVE createStarsHTML(_, _, _)
\* createStarsHTML(rating, current, maxStars): the star spans, each with its
\* data-value, its class and the percentage of its gradient
createStarsHTML(rating, current, max) ==
    IF current > max THEN <<>>
    ELSE LET ratingFloor == rating \div 10
             star ==
                IF current <= ratingFloor
                THEN [value |-> current, class |-> "star filled", percentage |-> 100]
                ELSE IF current = ratingFloor + 1
                THEN [value |-> current, class |-> "star",
                      percentage |-> (rating % 10) * 10]
                ELSE [value |-> current, class |-> "star", percentage |-> 0]
         IN  <<star>> \o createStarsHTML(rating, current + 1, max)

\* voteAverage.toFixed(1)
toFixed1(v) == [kind |-> "decimal", whole |-> v.n \div 10, frac |-> v.n % 10]

\* a rendering that shows the catalog's score first
createMovieHTMLScoreFirst(movie) ==
    LET rating == IF Truthy(Get(movie, "voteAverage"))
                  THEN Get(movie, "voteAverage").n
                  ELSE IF Truthy(Get(movie, "rating"))
                  THEN 10 * Get(movie, "rating").n ELSE 0
        scoreText == IF Truthy(Get(movie, "voteAverage"))
                     THEN toFixed1(Get(movie, "voteAverage"))
                     ELSE IF Truthy(Get(movie, "rating"))
                     THEN [kind |-> "outOf", whole |-> Get(movie, "rating").n,
                           frac |-> maxStars]
                     ELSE [kind |-> "none", whole |-> 0, frac |-> 0]
    IN  [op |-> "render", id |-> Get(movie, "id"), scoreText |-> scoreText,
         stars |-> createStarsHTML(rating, 1, maxStars)]

\* createMovieHTML(movie): the movie-item's data-movie-id, its score text
\* ("r/10", "w.f" or nothing) and its stars
createMovieHTML(movie) ==
    LET rating == IF Truthy(Get(movie, "rating"))
                  THEN 10 * Get(movie, "rating").n
                  ELSE IF Truthy(Get(movie, "voteAverage"))
                  THEN Get(movie, "voteAverage").n ELSE 0
        scoreText == IF Truthy(Get(movie, "rating"))
                     THEN [kind |-> "outOf", whole |-> Get(movie, "rating").n,
                           frac |-> maxStars]
                     ELSE IF Truthy(Get(movie, "voteAverage"))
                     THEN toFixed1(Get(movie, "voteAverage"))
                     ELSE [kind |-> "none", whole |-> 0, frac |-> 0]
    IN  [op |-> "render", id |-> Get(movie, "id"), scoreText |-> scoreText,
         stars |-> createStarsHTML(rating, 1, maxStars)]

\* records rendered: as fetched, with each catalog score (8.4, 6.7, 10.0, 0
\* and none) and with no user rating or one of 1..10
ViewMovies ==
    {Spread(Spread(base, [voteAverage |-> vote]), rating) :
        base \in {Stored(680), Stored(121)},
        vote \in {Num(84), Num(67), Num(100), Num(0), Null},
        rating \in {EmptyObject} \cup {[rating |-> Num(r)] : r \in 1..maxStars}}

InitView ==
    /\ input \in ViewMovies
    /\ output = [op |-> "none"]
    /\ StartUp(Absent)
    /\ fetches = <<>>
    /\ resetPc = "idle"
    /\ returned = <<>>
    /\ fc = FcIdle

Render ==
    /\ output' = createMovieHTML(input)
    /\ UNCHANGED <<appVars, resetVars, fc, input>>

NextView == Render

SpecView == InitView /\ [][NextView]_vars

\* C12: a record with a user rating r shows the score text r/10 and stars
\* drawn from r (r filled, the rest empty), whatever its voteAverage; the
\* voteAverage is shown only when there is no user rating
C12_UserRatingShownFirst ==
    output.op = "render" =>
        IF "rating" \in DOMAIN input
        THEN LET r == input["rating"].n
             IN  /\ output.scoreText =
                        [kind |-> "outOf", whole |-> r, frac |-> 10]
                 /\ Len(output.stars) = 10
                 /\ \A k \in 1..10 :
                       /\ output.stars[k].value = k
                       /\ k <= r => output.stars[k].class = "star filled"
                       /\ k > r => /\ output.stars[k].class = "star"
                                   /\ output.stars[k].percentage = 0
        ELSE /\ output.scoreText.kind # "outOf"
             /\ input["voteAverage"] = Num(84) =>
                   output.scoreText = [kind |-> "decimal", whole |-> 8, frac |-> 4]

\* C12 witness: the record with rating 7 and voteAverage 8.4 is rendered
\* with the text 7/10 and seven filled stars
C12_Witness ==
    /\ output.op = "render"
    /\ input = Spread(Spread(Stored(680), [voteAverage |-> Num(84)]),
                      [rating |-> Num(7)])
    /\ output.scoreText = [kind |-> "outOf", whole |-> 7, frac |-> 10]
    /\ output.stars[7].class = "star filled"
    /\ output.stars[8].class = "star"

-----------------------------------------------------------------------------
(* The application in a later session: the page is loaded again and finds   *)
(* what an earlier session persisted.  Two adds of 680 that overlapped (C1) *)
(* leave two records of id 680 in storage.                                  *)

SessionLists == InitialLists \cup {<<Stored(680), Stored(680)>>}

InitSession ==
    /\ \E list \in SessionLists : StartUp(saveMovies(list))
    /\ fetches = <<>>
    /\ resetPc = "idle"
    /\ returned = <<>>
    /\ fc = FcIdle
    /\ input = <<>>
    /\ output = <<>>

SpecSession == InitSession /\ [][Next]_vars

\* the record's rating is absent or one of 1..10
RatingOk(movie) ==
    "rating" \in DOMAIN movie =>
        (movie["rating"].t = "number" /\ movie["rating"].n \in 1..10)

\* the two records agree on every field but the rating
SameButRating(a, b) ==
    /\ (DOMAIN a) \ {"rating"} = (DOMAIN b) \ {"rating"}
    /\ \A f \in (DOMAIN a) \ {"rating"} : a[f] = b[f]

\* the two records have the same rating, or both none
SameRating(a, b) ==
    /\ ("rating" \in DOMAIN a) <=> ("rating" \in DOMAIN b)
    /\ "rating" \in DOMAIN a => a["rating"] = b["rating"]

\* C15: every record's rating is absent or an integer in 1..10 in every
\* state; a record created by add-by-search or bootstrap has no rating; a
\* click on position v of the k-th displayed record's control sets the
\* rating of exactly that record, to v; the update form neither sets nor
\* removes a rating
C15_RatingsStayInRange ==
    [][/\ \A i \in 1..Len(movies) : RatingOk(movies[i])
       /\ \A i \in 1..Len(movies') : RatingOk(movies'[i])
       /\ (lastEvent'.kind = "addSettle" /\ lastEvent'.result = "added")
             => "rating" \notin DOMAIN movies'[Len(movies')]
       /\ lastEvent'.kind = "initSettle"
             => \A i \in 1..Len(movies') : "rating" \notin DOMAIN movies'[i]
       /\ (lastEvent'.kind = "rate" /\ shown = idsOf(movies))
             => /\ Len(movies') = Len(movies)
                /\ \E k \in 1..Len(movies) :
                      /\ movies[k]["id"] = Num(lastEvent'.id)
                      /\ RatingOk(movies'[k])
                      /\ "rating" \in DOMAIN movies'[k]
                      /\ SameButRating(movies[k], movies'[k])
                      /\ \A j \in 1..Len(movies) :
                            j # k => movies'[j] = movies[j]
       /\ lastEvent'.kind = "update"
             => /\ Len(movies') = Len(movies)
                /\ \A i \in 1..Len(movies) : SameRating(movies[i], movies'[i])
      ]_vars

-----------------------------------------------------------------------------
\* C16: when a bootstrap completes, the in-memory collection and the
\* persisted list are exactly the successfully fetched default records, in
\* the order of the default ids and without any user rating: whatever the
\* collection held before, and whatever was added, updated, deleted, rated
\* or cleared while the fetches were pending, is gone
C16_BootstrapOverwrites ==
    [][(lastEvent'.kind = "initSettle" /\ pendingInits' = pendingInits - 1)
         => /\ \E outs \in BootScenarios :
                  LET fetched == [i \in 1..Len(DEFAULT_MOVIE_IDS) |->
                                     fetchCompleteMovieData(DEFAULT_MOVIE_IDS[i],
                                                            outs[i][1], outs[i][2])]
                      F == {DEFAULT_MOVIE_IDS[i] :
                               i \in {j \in 1..Len(fetched) : fetched[j] = Null}}
                      kept == Without(DEFAULT_MOVIE_IDS, F)
                  IN  /\ Len(movies') = Len(kept)
                      /\ \A k \in 1..Len(kept) :
                            /\ movies'[k]["id"] = Num(kept[k])
                            /\ \E i \in 1..Len(fetched) : fetched[i] = movies'[k]
            /\ \A k \in 1..Len(movies') : "rating" \notin DOMAIN movies'[k]
            /\ loadMovies(storage') =
                  [threw |-> FALSE, isArray |-> TRUE, value |-> movies']
      ]_vars

\* C16 witness: a bootstrap in which the fetches of 129 and 680 failed has
\* completed after two other user events, with an add of 550 still pending:
\* the collection is the eight fetched defaults
C16_Witness ==
    /\ lastEvent.kind = "initSettle"
    /\ ops = 3
    /\ pendingInits = 0
    /\ pendingAdds[550] = 1
    /\ idsOf(movies) = <<Num(124), Num(122), Num(121), Num(120), Num(13),
                         Num(155), Num(497), Num(275)>>
    /\ \A k \in 1..Len(movies) : "rating" \notin DOMAIN movies[k]
    /\ loadMovies(storage).value = movies

====
